---- MODULE Spec2Model ----
(***************************************************************************)
(* Workflow engine of osapiens-backend-challenge: the task/workflow/result *)
(* store, WorkflowFactory.createWorkflowFromYAML, TaskService.prepare and  *)
(* TaskService.run, the TaskWorker.pool loop, and the results request with *)
(* WorkflowService.updateWorkflowFinalResult.                              *)
(*                                                                         *)
(* Task ids, workflow ids and result ids are positions in the three        *)
(* repositories (the code uses generated UUIDs; only identity matters).    *)
(* A step of the model is one synchronous stretch of JavaScript together   *)
(* with the store access that it awaits.                                   *)
(***************************************************************************)
EXTENDS Integers, Sequences, FiniteSets, TLC

\* ---------------------------------------------------------------- bounds
MaxTasks == 3          \* tasks in the store, poll loop running
MaxWorkflows == 2      \* workflows in the store, poll loop running
ApiMaxWorkflows == 1   \* workflows in the store, service called directly
SeqMaxTasks == 4       \* tasks in the store, sequential driver
MaxDeps == 2           \* dependencies of one step
MaxInvocations == 1    \* job.run invocations per task, service called directly
MaxRequests == 2       \* results requests, poll loop running
LiveMaxRequests == 1   \* results requests, fair poll loop
MaxBatchTasks == 12    \* steps of the workflow whose tasks fill more than one batch
TwoMaxTasks == 1       \* steps of the workflow that two poll loops work on

\* ------------------------------------------------------------ enumerations
Queued == "queued"
Ready == "ready"
InProgress == "in_progress"
Completed == "completed"
Failed == "failed"
Skipped == "skipped"
TaskStatus == {Queued, Ready, InProgress, Completed, Failed, Skipped}

WfInitial == "initial"
WfInProgress == "in_progress"
WfCompleted == "completed"
WfFailed == "failed"
WorkflowStatus == {WfInitial, WfInProgress, WfCompleted, WfFailed}

\* task types of a workflow definition: one with a registered side-effect-free
\* job, the report job, and one that jobMap does not contain
jobMap == {"polygonArea", "reportGeneration"}
StepTypes == {"polygonArea", "unknownType"}

NULL == "null"
\* the finalResult column of a workflow that has none
NoFinalResult == [by |-> "none"]
StartingJob == "starting job..."
NotReadyError == "is not ready to run"
NoJobError == "No job found for task type"
JobError == "job error"
PrepareError == "prepare error"
WorkflowNotFound == "Workflow not found"
NoError == "none"

batchSize == 10

\* ---------------------------------------------------------------- state
VARIABLES
    workflowRepository,  \* Seq of [status, finalResult, factory]
    taskRepository,      \* Seq of task rows
    resultRepository,    \* Seq of [taskId, data, dependentTasks]
    pc,                  \* position of TaskWorker.pool
    stopFlag,
    queuedTasks,         \* entities fetched by getQueuedTasks, not yet prepared
    readyTasks,          \* entities fetched by getReadyTasks (ids)
    i,                   \* batch offset of the loop in pool
    runs,                \* in-flight TaskService.run calls of the batch
    invoked,             \* Seq: number of job.run invocations per task
    errors,              \* what the poller logged: set of <<taskId, message>>
    lastCall,            \* the last direct call of the service API
    agg,                 \* the getWorkflowResults request in flight
    other                \* the locals of a second pool() call, while the first one acts

storeVars == <<workflowRepository, taskRepository, resultRepository>>
poolVars == <<pc, stopFlag, queuedTasks, readyTasks, i, runs, errors>>
vars == <<workflowRepository, taskRepository, resultRepository, pc, stopFlag,
          queuedTasks, readyTasks, i, runs, invoked, errors, lastCall, agg, other>>

TaskIds == 1..Len(taskRepository)
WorkflowIds == 1..Len(workflowRepository)
TasksOf(w) == {t \in TaskIds : taskRepository[t].workflowId = w}

Min(a, b) == IF a < b THEN a ELSE b
Max(S) == CHOOSE x \in S : \A y \in S : y <= x

NoRuns == [t \in {} |-> 0]
NoWorkflow == [status |-> NULL, finalResult |-> NoFinalResult]
NoAgg == [pc |-> "idle", workflowId |-> 0, workflow |-> NoWorkflow, requests |-> 0]
NoOther == [pc |-> "idle", queuedTasks |-> <<>>, readyTasks |-> <<>>, i |-> 0,
            runs |-> NoRuns]
NoCall == [op |-> "none", taskId |-> 0, error |-> NoError, repeat |-> FALSE]
\* the record of a direct call; repeat: the call before it was the same call
Call(op, t, error) ==
    [op |-> op, taskId |-> t, error |-> error,
     repeat |-> (lastCall.op = op /\ lastCall.taskId = t)]

Init ==
    /\ workflowRepository = <<>>
    /\ taskRepository = <<>>
    /\ resultRepository = <<>>
    /\ pc = "idle"
    /\ stopFlag = FALSE
    /\ queuedTasks = <<>>
    /\ readyTasks = <<>>
    /\ i = 0
    /\ runs = NoRuns
    /\ invoked = <<>>
    /\ errors = {}
    /\ lastCall = NoCall
    /\ agg = NoAgg
    /\ other = NoOther

\* ------------------------------------------------- WorkflowFactory
\* createWorkflowFromYAML saves the workflow, then the tasks of the sorted
\* steps one by one, then the report task.  The definition is chosen step by
\* step: only the order of the step numbers matters to the engine, so the
\* next step number is the last one or the last one plus one.

\* workflowRepository.save(workflow) with status Initial
FactorySaveWorkflow(maxWorkflows) ==
    /\ Len(workflowRepository) < maxWorkflows
    /\ workflowRepository' = Append(workflowRepository,
           [status |-> WfInitial, finalResult |-> NoFinalResult, factory |-> "saving"])
    /\ lastCall' = NoCall
    /\ UNCHANGED <<taskRepository, resultRepository, invoked, poolVars, agg, other>>

LastStep(w) == IF TasksOf(w) = {} THEN 0
               ELSE taskRepository[Max(TasksOf(w))].stepNumber

\* savedTasks: step number -> the task saved last with that step number
savedTasks(w) ==
    {t \in TasksOf(w) :
        \A u \in TasksOf(w) :
            taskRepository[u].stepNumber = taskRepository[t].stepNumber => u <= t}

NewTask(w, step, type, deps) ==
    [workflowId |-> w, stepNumber |-> step, taskType |-> type,
     dependencies |-> deps, status |-> Queued, progress |-> NULL, resultId |-> 0]

\* one iteration of the loop that saves the tasks of the sorted steps
FactorySaveTask(limit) ==
    \E w \in WorkflowIds :
        /\ workflowRepository[w].factory = "saving"
        /\ Len(taskRepository) < limit
        /\ \E step \in {LastStep(w), LastStep(w) + 1}, type \in StepTypes,
              deps \in SUBSET savedTasks(w) :
            /\ step >= 1
            /\ Cardinality(deps) <= MaxDeps
            /\ taskRepository' = Append(taskRepository, NewTask(w, step, type, deps))
            /\ invoked' = Append(invoked, 0)
        /\ lastCall' = NoCall
        /\ UNCHANGED <<workflowRepository, resultRepository, poolVars, agg, other>>

\* the final reporting task, one step after the last step, no dependencies
FactorySaveReport(limit) ==
    \E w \in WorkflowIds :
        /\ workflowRepository[w].factory = "saving"
        /\ TasksOf(w) # {}
        /\ Len(taskRepository) < limit
        /\ taskRepository' = Append(taskRepository,
               NewTask(w, LastStep(w) + 1, "reportGeneration", {}))
        /\ invoked' = Append(invoked, 0)
        /\ workflowRepository' = [workflowRepository EXCEPT ![w].factory = "done"]
        /\ lastCall' = NoCall
        /\ UNCHANGED <<resultRepository, poolVars, agg, other>>

\* a step names a dependency that exists in the definition but is not saved
\* before it: 'Invalid dependency reference' is thrown from inside the loop
FactoryReject ==
    \E w \in WorkflowIds :
        /\ workflowRepository[w].factory = "saving"
        /\ workflowRepository' = [workflowRepository EXCEPT ![w].factory = "failed"]
        /\ lastCall' = NoCall
        /\ UNCHANGED <<taskRepository, resultRepository, invoked, poolVars, agg, other>>

\* ------------------------------------------------- TaskService
\* an entity as taskRepository.find returns it with relations
\* ['dependencies', 'workflow']: the columns of the row and, for every
\* dependency, the status that dependency had when the entity was fetched
Entity(t) ==
    [taskId |-> t,
     status |-> taskRepository[t].status,
     progress |-> taskRepository[t].progress,
     resultId |-> taskRepository[t].resultId,
     dependencies |-> [d \in taskRepository[t].dependencies |->
                           taskRepository[d].status]]

\* the ids of the rows with the given status, in the order of the table
RECURSIVE FindByStatus(_, _)
FindByStatus(status, n) ==
    IF n = 0 THEN <<>>
    ELSE IF taskRepository[n].status = status
         THEN Append(FindByStatus(status, n - 1), n)
         ELSE FindByStatus(status, n - 1)

getQueuedTasksResult ==
    [k \in 1..Len(FindByStatus(Queued, Len(taskRepository))) |->
        Entity(FindByStatus(Queued, Len(taskRepository))[k])]

getReadyTasksResult ==
    [k \in 1..Len(FindByStatus(Ready, Len(taskRepository))) |->
        Entity(FindByStatus(Ready, Len(taskRepository))[k])]

\* the ordering gate left out
previousTasksIncomplete_none(task) == FALSE

\* the ordering gate accepting only Completed predecessors
previousTasksIncomplete_completedOnly(task) ==
    \E u \in TasksOf(taskRepository[task.taskId].workflowId) :
        /\ taskRepository[u].stepNumber < taskRepository[task.taskId].stepNumber
        /\ taskRepository[u].status # Completed

\* the ordering gate also waiting for the tasks of the same step that are
\* Ready or InProgress, the task itself among them
previousTasksIncomplete_sameStepBusy(task) ==
    \E u \in TasksOf(taskRepository[task.taskId].workflowId) :
        \/ /\ taskRepository[u].stepNumber < taskRepository[task.taskId].stepNumber
           /\ taskRepository[u].status # Completed
           /\ taskRepository[u].status # Failed
        \/ /\ taskRepository[u].stepNumber = taskRepository[task.taskId].stepNumber
           /\ taskRepository[u].status \in {Ready, InProgress}

\* the ordering gate accepting Skipped predecessors too
previousTasksIncomplete_skippedDone(task) ==
    \E u \in TasksOf(taskRepository[task.taskId].workflowId) :
        /\ taskRepository[u].stepNumber < taskRepository[task.taskId].stepNumber
        /\ taskRepository[u].status \notin {Completed, Failed, Skipped}

\* workflow.tasks.some(t => t.stepNumber < task.stepNumber && t.status is
\* neither Completed nor Failed), on the workflow loaded inside prepare
previousTasksIncomplete(task) ==
    \E u \in TasksOf(taskRepository[task.taskId].workflowId) :
        /\ taskRepository[u].stepNumber < taskRepository[task.taskId].stepNumber
        /\ taskRepository[u].status # Completed
        /\ taskRepository[u].status # Failed

\* every() where the code has some()
anyFailed_all(task) ==
    \A d \in DOMAIN task.dependencies : task.dependencies[d] = Failed

\* a dependency that has not completed taken for a failed one
anyFailed_notCompleted(task) ==
    \E d \in DOMAIN task.dependencies : task.dependencies[d] # Completed

anyFailed(task) ==
    \E d \in DOMAIN task.dependencies : task.dependencies[d] = Failed

\* some() where the code has every()
allCompleted_some(task) ==
    \E d \in DOMAIN task.dependencies : task.dependencies[d] = Completed

allCompleted(task) ==
    \A d \in DOMAIN task.dependencies : task.dependencies[d] = Completed

\* a failed dependency fails the task instead of skipping it
prepareStatus_failsDependents(task) ==
    IF previousTasksIncomplete(task) THEN Queued
    ELSE IF DOMAIN task.dependencies = {} THEN Ready
    ELSE IF anyFailed(task) THEN Failed
    ELSE IF allCompleted(task) THEN Ready
    ELSE Queued

\* a task with pending dependencies is made Ready
prepareStatus_readyWhenPending(task) ==
    IF previousTasksIncomplete(task) THEN Queued
    ELSE IF DOMAIN task.dependencies = {} THEN Ready
    ELSE IF anyFailed(task) THEN Skipped
    ELSE Ready

\* the status that prepare assigns to the entity
prepareStatus(task) ==
    IF previousTasksIncomplete(task) THEN Queued
    ELSE IF DOMAIN task.dependencies = {} THEN Ready
    ELSE IF anyFailed(task) THEN Skipped
    ELSE IF allCompleted(task) THEN Ready
    ELSE Queued

\* taskRepository.save(task): the row takes the columns of the entity
SaveTask(task) ==
    [taskRepository EXCEPT ![task.taskId] =
        [@ EXCEPT !.status = task.status,
                  !.progress = task.progress,
                  !.resultId = task.resultId]]

\* the save of the task cascading to the loaded dependencies
prepare_cascade(task) ==
    LET saved == SaveTask([task EXCEPT !.status = prepareStatus(task)])
    IN taskRepository' =
           [u \in DOMAIN saved |->
               IF u \in DOMAIN task.dependencies
               THEN [saved[u] EXCEPT !.status = task.dependencies[u]]
               ELSE saved[u]]

\* TaskService.prepare(task); the workflow of a stored task always exists
prepare(task) ==
    taskRepository' = SaveTask([task EXCEPT !.status = prepareStatus(task)])

\* the workflow status that run derives from the tasks of the reloaded
\* workflow (tasks: the task table at the time of the reload)
deriveWorkflowStatus(tasks, w) ==
    IF \E t \in TasksOf(w) : tasks[t].status = Failed THEN WfFailed
    ELSE IF \A t \in TasksOf(w) : tasks[t].status = Completed
         THEN WfCompleted
         ELSE WfInProgress

\* ReportGenerationJob.run: the report over the other tasks of the workflow
Report(task) ==
    LET others == TasksOf(taskRepository[task].workflowId) \ {task}
    IN [by |-> "reportGeneration",
        totalTasks |-> Cardinality(others),
        completedTasks |->
            Cardinality({t \in others : taskRepository[t].status = Completed}),
        failedTasks |->
            Cardinality({t \in others : taskRepository[t].status = Failed})]

\* a Result created without the id of its task
createResult_noTask(taskId) ==
    [taskId |-> 0, data |-> "data", dependentTasks |-> 0]

\* resultFactory.createResult and resultRepository.save
createResult(taskId) ==
    [taskId |-> taskId, data |-> "data", dependentTasks |-> 0]

\* the collected results taken over by the task that collects them
LinkResults_takeOver(t) ==
    [r \in 1..Len(resultRepository) |->
        IF \E d \in taskRepository[t].dependencies :
               taskRepository[d].resultId = r
        THEN [resultRepository[r] EXCEPT !.taskId = t, !.dependentTasks = t]
        ELSE resultRepository[r]]

\* the dependencyResults that run collects and saves with the task: the
\* results of the dependencies get the task as their dependentTasks
LinkResults(t) ==
    [r \in 1..Len(resultRepository) |->
        IF \E d \in taskRepository[t].dependencies :
               taskRepository[d].resultId = r
        THEN [resultRepository[r] EXCEPT !.dependentTasks = t]
        ELSE resultRepository[r]]

\* run without its status check
runStart_noCheck(task) ==
    [pc |-> "saveInProgress",
     task |-> [task EXCEPT !.status = InProgress, !.progress = StartingJob],
     error |-> NoError, workflow |-> NoWorkflow]

\* the synchronous start of run(task): the status check, then the entity is
\* InProgress in memory; getDependenciesResults and then the first save are
\* awaited, the store still holding the status that was fetched
runStart(task) ==
    IF task.status # Ready
    THEN [pc |-> "rejected", task |-> task, error |-> NotReadyError,
          workflow |-> NoWorkflow]
    ELSE [pc |-> "saveInProgress",
          task |-> [task EXCEPT !.status = InProgress, !.progress = StartingJob],
          error |-> NoError, workflow |-> NoWorkflow]

\* ------------------------------------------------- TaskWorker.pool
\* the slice reaching to the end of readyTasks
Batch_unbounded(ready, offset) ==
    {ready[k].taskId : k \in (offset + 1)..Len(ready)}

\* readyTasks.slice(offset, offset + batchSize), every run of it started
Batch(ready, offset) ==
    {ready[k].taskId : k \in (offset + 1)..Min(offset + batchSize, Len(ready))}

StartBatch(ready, offset) ==
    [t \in Batch(ready, offset) |->
        runStart(CHOOSE e \in {ready[k] : k \in 1..Len(ready)} : e.taskId = t)]

\* the loop ending after its first cycle
EndOfCycle_once == "stopped"

EndOfCycle == IF stopFlag THEN "stopped" ELSE "sleep"

\* pool(): the flag is cleared, the loop is entered and getQueuedTasks returns
Pool ==
    /\ pc = "idle"
    /\ stopFlag' = FALSE
    /\ queuedTasks' = getQueuedTasksResult
    /\ pc' = "prepare"
    /\ UNCHANGED <<storeVars, readyTasks, i, runs, invoked, errors, lastCall, agg, other>>

\* stop()
Stop ==
    /\ pc \notin {"idle", "stopped"}
    /\ ~stopFlag
    /\ stopFlag' = TRUE
    /\ UNCHANGED <<storeVars, pc, queuedTasks, readyTasks, i, runs, invoked,
                   errors, lastCall, agg, other>>

\* one iteration of the loop over queuedTasks
PollPrepare ==
    /\ pc = "prepare"
    /\ queuedTasks # <<>>
    /\ prepare(Head(queuedTasks))
    /\ queuedTasks' = Tail(queuedTasks)
    /\ UNCHANGED <<workflowRepository, resultRepository, pc, stopFlag,
                   readyTasks, i, runs, invoked, errors, lastCall, agg, other>>

\* getReadyTasks not waiting for the end of the loop over queuedTasks
GetReadyTasks_early ==
    /\ pc = "prepare"
    /\ readyTasks' = getReadyTasksResult
    /\ i' = 0
    /\ runs' = StartBatch(getReadyTasksResult, 0)
    /\ pc' = IF Len(getReadyTasksResult) = 0 THEN EndOfCycle ELSE "batch"
    /\ UNCHANGED <<storeVars, stopFlag, queuedTasks, invoked, errors, lastCall, agg, other>>

\* getReadyTasks, and the first batch is started (or the cycle ends)
GetReadyTasks ==
    /\ pc = "prepare"
    /\ queuedTasks = <<>>
    /\ readyTasks' = getReadyTasksResult
    /\ i' = 0
    /\ runs' = StartBatch(getReadyTasksResult, 0)
    /\ pc' = IF Len(getReadyTasksResult) = 0 THEN EndOfCycle ELSE "batch"
    /\ UNCHANGED <<storeVars, stopFlag, queuedTasks, invoked, errors, lastCall, agg, other>>

\* the first save of run, then createJobFromTaskType and job.run(task)
RunSaveInProgress(t) ==
    /\ pc = "batch"
    /\ t \in DOMAIN runs
    /\ runs[t].pc = "saveInProgress"
    /\ taskRepository' = SaveTask(runs[t].task)
    /\ resultRepository' = LinkResults(t)
    /\ IF taskRepository[t].taskType \in jobMap
       THEN /\ runs' = [runs EXCEPT ![t].pc = "job"]
            /\ invoked' = [invoked EXCEPT ![t] = @ + 1]
       ELSE /\ runs' = [runs EXCEPT ![t].pc = "rejected", ![t].error = NoJobError]
            /\ UNCHANGED invoked
    /\ UNCHANGED <<workflowRepository, pc, stopFlag, queuedTasks, readyTasks, i,
                   errors, lastCall, agg, other>>

\* ReportGenerationJob.run reads the workflow and the tasks and builds the report
JobReadWorkflow(t) ==
    /\ pc = "batch"
    /\ t \in DOMAIN runs
    /\ runs[t].pc = "job"
    /\ taskRepository[t].taskType = "reportGeneration"
    /\ runs' = [runs EXCEPT ![t].pc = "jobSave",
                   ![t].workflow =
                       [status |-> workflowRepository[taskRepository[t].workflowId].status,
                        finalResult |-> Report(t)]]
    /\ UNCHANGED <<storeVars, pc, stopFlag, queuedTasks, readyTasks, i, invoked,
                   errors, lastCall, agg, other>>

\* workflowRepository.save(workflow): the row takes the columns of the object
SaveWorkflow(w, workflow) ==
    [workflowRepository EXCEPT ![w].status = workflow.status,
                               ![w].finalResult = workflow.finalResult]

\* ReportGenerationJob.run saves the workflow with the report as finalResult
JobSaveWorkflow(t) ==
    /\ pc = "batch"
    /\ t \in DOMAIN runs
    /\ runs[t].pc = "jobSave"
    /\ workflowRepository' =
           SaveWorkflow(taskRepository[t].workflowId, runs[t].workflow)
    /\ runs' = [runs EXCEPT ![t].pc = "jobReturn"]
    /\ UNCHANGED <<taskRepository, resultRepository, pc, stopFlag, queuedTasks,
                   readyTasks, i, invoked, errors, lastCall, agg, other>>

\* job.run returns: the Result is created and saved
JobReturns(t) ==
    /\ pc = "batch"
    /\ t \in DOMAIN runs
    /\ \/ runs[t].pc = "job" /\ taskRepository[t].taskType # "reportGeneration"
       \/ runs[t].pc = "jobReturn"
    /\ resultRepository' = Append(resultRepository, createResult(t))
    /\ runs' = [runs EXCEPT ![t].pc = "saveCompleted",
                   ![t].task = [@ EXCEPT !.resultId = Len(resultRepository) + 1,
                                         !.status = Completed,
                                         !.progress = NULL]]
    /\ UNCHANGED <<workflowRepository, taskRepository, pc, stopFlag, queuedTasks,
                   readyTasks, i, invoked, errors, lastCall, agg, other>>

\* the catch block putting the task back to Ready
JobThrows_retry(t) ==
    /\ pc = "batch"
    /\ t \in DOMAIN runs
    /\ runs[t].pc = "job"
    /\ taskRepository[t].taskType # "reportGeneration"
    /\ taskRepository' =
           SaveTask([runs[t].task EXCEPT !.status = Ready, !.progress = NULL])
    /\ runs' = [runs EXCEPT ![t].pc = "rejected", ![t].error = JobError,
                   ![t].task = [@ EXCEPT !.status = Ready, !.progress = NULL]]
    /\ UNCHANGED <<workflowRepository, resultRepository, pc, stopFlag,
                   queuedTasks, readyTasks, i, invoked, errors, lastCall, agg, other>>

\* the catch block rethrowing without saving the task as Failed
JobThrows_noSave(t) ==
    /\ pc = "batch"
    /\ t \in DOMAIN runs
    /\ runs[t].pc = "job"
    /\ taskRepository[t].taskType # "reportGeneration"
    /\ runs' = [runs EXCEPT ![t].pc = "rejected", ![t].error = JobError]
    /\ UNCHANGED <<storeVars, pc, stopFlag, queuedTasks, readyTasks, i, invoked,
                   errors, lastCall, agg, other>>

\* job.run throws: the catch block saves the task as Failed and rethrows
JobThrows(t) ==
    /\ pc = "batch"
    /\ t \in DOMAIN runs
    /\ runs[t].pc = "job"
    /\ taskRepository[t].taskType # "reportGeneration"
    /\ taskRepository' =
           SaveTask([runs[t].task EXCEPT !.status = Failed, !.progress = NULL])
    /\ runs' = [runs EXCEPT ![t].pc = "rejected", ![t].error = JobError,
                   ![t].task = [@ EXCEPT !.status = Failed, !.progress = NULL]]
    /\ UNCHANGED <<workflowRepository, resultRepository, pc, stopFlag,
                   queuedTasks, readyTasks, i, invoked, errors, lastCall, agg, other>>

\* the save of the Completed task
RunSaveCompleted(t) ==
    /\ pc = "batch"
    /\ t \in DOMAIN runs
    /\ runs[t].pc = "saveCompleted"
    /\ taskRepository' = SaveTask(runs[t].task)
    /\ runs' = [runs EXCEPT ![t].pc = "findWorkflow"]
    /\ UNCHANGED <<workflowRepository, resultRepository, pc, stopFlag,
                   queuedTasks, readyTasks, i, invoked, errors, lastCall, agg, other>>

\* the workflow is reloaded with its tasks and its status is derived
RunFindWorkflow(t) ==
    /\ pc = "batch"
    /\ t \in DOMAIN runs
    /\ runs[t].pc = "findWorkflow"
    /\ runs' = [runs EXCEPT ![t].pc = "saveWorkflow",
                   ![t].workflow =
                       [status |-> deriveWorkflowStatus(taskRepository,
                                       taskRepository[t].workflowId),
                        finalResult |->
                            workflowRepository[taskRepository[t].workflowId].finalResult]]
    /\ UNCHANGED <<storeVars, pc, stopFlag, queuedTasks, readyTasks, i, invoked,
                   errors, lastCall, agg, other>>

RunSaveWorkflow(t) ==
    /\ pc = "batch"
    /\ t \in DOMAIN runs
    /\ runs[t].pc = "saveWorkflow"
    /\ workflowRepository' =
           SaveWorkflow(taskRepository[t].workflowId, runs[t].workflow)
    /\ runs' = [runs EXCEPT ![t].pc = "resolved"]
    /\ UNCHANGED <<taskRepository, resultRepository, pc, stopFlag, queuedTasks,
                   readyTasks, i, invoked, errors, lastCall, agg, other>>

\* the cycle given up when a run of the batch has rejected
BatchDone_failFast ==
    /\ pc = "batch"
    /\ \A t \in DOMAIN runs : runs[t].pc \in {"resolved", "rejected"}
    /\ errors' = errors \cup
           {<<t, runs[t].error>> : t \in {u \in DOMAIN runs : runs[u].pc = "rejected"}}
    /\ IF /\ i + batchSize < Len(readyTasks)
          /\ \A t \in DOMAIN runs : runs[t].pc = "resolved"
       THEN /\ runs' = StartBatch(readyTasks, i + batchSize)
            /\ i' = i + batchSize
            /\ pc' = "batch"
            /\ UNCHANGED readyTasks
       ELSE /\ runs' = NoRuns
            /\ i' = 0
            /\ pc' = EndOfCycle
            /\ readyTasks' = <<>>
    /\ UNCHANGED <<storeVars, stopFlag, queuedTasks, invoked, lastCall, agg, other>>

\* Promise.all of the batch settles: rejected runs are logged, the next batch
\* is started or the cycle ends
BatchDone ==
    /\ pc = "batch"
    /\ \A t \in DOMAIN runs : runs[t].pc \in {"resolved", "rejected"}
    /\ errors' = errors \cup
           {<<t, runs[t].error>> : t \in {u \in DOMAIN runs : runs[u].pc = "rejected"}}
    /\ runs' = StartBatch(readyTasks, i + batchSize)
    /\ IF i + batchSize < Len(readyTasks)
       THEN /\ i' = i + batchSize
            /\ pc' = "batch"
            /\ UNCHANGED readyTasks
       ELSE /\ i' = 0
            /\ pc' = EndOfCycle
            /\ readyTasks' = <<>>
    /\ UNCHANGED <<storeVars, stopFlag, queuedTasks, invoked, lastCall, agg, other>>

\* the timer starting the next cycle whatever the flag
Wake_ignoresStop ==
    /\ pc = "sleep"
    /\ pc' = "prepare"
    /\ queuedTasks' = getQueuedTasksResult
    /\ UNCHANGED <<storeVars, stopFlag, readyTasks, i, runs, invoked, errors,
                   lastCall, agg, other>>

\* the 100 ms timer fires and the loop condition is tested: the loop ends, or
\* the next cycle starts and getQueuedTasks returns
Wake ==
    /\ pc = "sleep"
    /\ IF stopFlag
       THEN pc' = "stopped" /\ UNCHANGED queuedTasks
       ELSE pc' = "prepare" /\ queuedTasks' = getQueuedTasksResult
    /\ UNCHANGED <<storeVars, stopFlag, readyTasks, i, runs, invoked, errors,
                   lastCall, agg, other>>

Factory(maxWorkflows, limit) ==
    \/ FactorySaveWorkflow(maxWorkflows)
    \/ FactorySaveTask(limit)
    \/ FactorySaveReport(limit)
    \/ FactoryReject

Next ==
    \/ Factory(MaxWorkflows, MaxTasks)
    \/ Pool
    \/ Stop
    \/ PollPrepare
    \/ GetReadyTasks
    \/ \E t \in TaskIds :
        \/ RunSaveInProgress(t)
        \/ JobReadWorkflow(t)
        \/ JobSaveWorkflow(t)
        \/ JobReturns(t)
        \/ JobThrows(t)
        \/ RunSaveCompleted(t)
        \/ RunFindWorkflow(t)
        \/ RunSaveWorkflow(t)
    \/ BatchDone
    \/ Wake

Spec == Init /\ [][Next]_vars

TypeOK ==
    /\ \A t \in TaskIds : taskRepository[t].status \in TaskStatus
    /\ \A w \in WorkflowIds : workflowRepository[w].status \in WorkflowStatus

\* ------------------------------------------------- the service called directly
\* prepare and run called one after the other on freshly fetched entities, in
\* any order and on any task (as the unit tests of the service do); each call
\* runs to its end before the next one starts.

ApiPrepare(t) ==
    /\ pc = "idle"
    /\ prepare(Entity(t))
    /\ lastCall' = Call("prepare", t, NoError)
    /\ UNCHANGED <<workflowRepository, resultRepository, invoked, poolVars, agg, other>>

\* TaskService.run(task) from its first to its last statement
ApiRun(t) ==
    LET r == runStart(Entity(t))
        w == taskRepository[t].workflowId
        type == taskRepository[t].taskType
        completed == [r.task EXCEPT !.resultId = Len(resultRepository) + 1,
                                    !.status = Completed,
                                    !.progress = NULL]
        reported == IF type = "reportGeneration"
                    THEN SaveWorkflow(w, [status |-> workflowRepository[w].status,
                                          finalResult |-> Report(t)])
                    ELSE workflowRepository
    IN /\ pc = "idle"
       /\ IF r.pc = "rejected"
          THEN /\ lastCall' = Call("run", t, r.error)
               /\ UNCHANGED <<storeVars, invoked>>
          ELSE IF type \notin jobMap
          THEN /\ taskRepository' = SaveTask(r.task)
               /\ resultRepository' = LinkResults(t)
               /\ lastCall' = Call("run", t, NoJobError)
               /\ UNCHANGED <<workflowRepository, invoked>>
          ELSE /\ invoked[t] < MaxInvocations
               /\ invoked' = [invoked EXCEPT ![t] = @ + 1]
               /\ \/ /\ type # "reportGeneration"
                     /\ taskRepository' =
                            SaveTask([r.task EXCEPT !.status = Failed,
                                                    !.progress = NULL])
                     /\ resultRepository' = LinkResults(t)
                     /\ lastCall' = Call("run", t, JobError)
                     /\ UNCHANGED workflowRepository
                  \/ /\ taskRepository' = SaveTask(completed)
                     /\ resultRepository' = Append(LinkResults(t), createResult(t))
                     /\ workflowRepository' =
                            [reported EXCEPT ![w].status =
                                deriveWorkflowStatus(SaveTask(completed), w)]
                     /\ lastCall' = Call("run", t, NoError)
       /\ UNCHANGED <<poolVars, agg, other>>

NextApi ==
    \/ Factory(ApiMaxWorkflows, MaxTasks)
    \/ \E t \in TaskIds : ApiPrepare(t)
    \/ \E t \in TaskIds : ApiRun(t)

SpecApi == Init /\ [][NextApi]_vars

\* ------------------------------------------------- a sequential driver
\* The calls the poller makes, one at a time and in any order: prepare on a
\* task that is Queued, run on a task that is Ready.

SeqPrepare(t) ==
    /\ taskRepository[t].status = Queued
    /\ ApiPrepare(t)

SeqRun(t) ==
    /\ taskRepository[t].status = Ready
    /\ ApiRun(t)

NextSeq ==
    \/ Factory(ApiMaxWorkflows, SeqMaxTasks)
    \/ \E t \in TaskIds : SeqPrepare(t)
    \/ \E t \in TaskIds : SeqRun(t)

SpecSeq == Init /\ [][NextSeq]_vars

\* ------------------------------------------------- WorkflowService
\* GET /workflow/:id/results: the controller loads the workflow and calls
\* updateWorkflowFinalResult, which loads the tasks of the workflow, builds
\* the final result from them and from their Results, and saves the workflow.

\* the entry of a task counts as completed: the task is Completed, has a
\* resultId, and a Result with its taskId and with data is found
CountsCompleted(t) ==
    /\ taskRepository[t].status = Completed
    /\ taskRepository[t].resultId # 0
    /\ \E r \in 1..Len(resultRepository) :
          resultRepository[r].taskId = t /\ resultRepository[r].data # ""

\* the entry of a task counts as failed: the else branch of the loop
CountsFailed(t) ==
    ~(taskRepository[t].status = Completed /\ taskRepository[t].resultId # 0)

\* the final result counting only the Failed tasks as failed
FinalResult_failedOnly(w) ==
    [by |-> "aggregator",
     tasks |-> Cardinality(TasksOf(w)),
     completedTasks |-> Cardinality({t \in TasksOf(w) : CountsCompleted(t)}),
     failedTasks |-> Cardinality({t \in TasksOf(w) : taskRepository[t].status = Failed}),
     success |-> \A t \in TasksOf(w) : taskRepository[t].status # Failed]

\* the finalResult object that updateWorkflowFinalResult builds (tasks: the
\* number of entries of its tasks array, one pushed per task of the loop)
FinalResult(w) ==
    [by |-> "aggregator",
     tasks |-> Cardinality(TasksOf(w)),
     completedTasks |-> Cardinality({t \in TasksOf(w) : CountsCompleted(t)}),
     failedTasks |-> Cardinality({t \in TasksOf(w) : CountsFailed(t)}),
     success |-> \A t \in TasksOf(w) : ~CountsFailed(t)]

\* getWorkflowById, then taskRepository.find and the loop over the tasks: the
\* workflow object carries the final result and the status to be saved
AggFindTasks(w, maxRequests) ==
    /\ agg.pc = "idle"
    /\ w \in WorkflowIds
    /\ agg.requests < maxRequests
    /\ agg' = [pc |-> "save", workflowId |-> w, requests |-> agg.requests + 1,
               workflow |-> [status |-> IF FinalResult(w).success
                                        THEN WfCompleted ELSE WfFailed,
                             finalResult |-> FinalResult(w)]]
    /\ UNCHANGED <<storeVars, poolVars, invoked, lastCall, other>>

\* workflowRepository.save(workflow) at the end of updateWorkflowFinalResult
AggSaveWorkflow ==
    /\ agg.pc = "save"
    /\ workflowRepository' = SaveWorkflow(agg.workflowId, agg.workflow)
    /\ agg' = [NoAgg EXCEPT !.requests = agg.requests]
    /\ UNCHANGED <<taskRepository, resultRepository, poolVars, invoked, lastCall, other>>

\* the poll loop and the runs it started
PollerNext ==
    \/ Pool
    \/ PollPrepare
    \/ GetReadyTasks
    \/ \E t \in TaskIds :
        \/ RunSaveInProgress(t)
        \/ JobReadWorkflow(t)
        \/ JobSaveWorkflow(t)
        \/ JobReturns(t)
        \/ JobThrows(t)
        \/ RunSaveCompleted(t)
        \/ RunFindWorkflow(t)
        \/ RunSaveWorkflow(t)
    \/ BatchDone
    \/ Wake

\* one workflow, the poll loop and results requests
NextAgg ==
    \/ Factory(ApiMaxWorkflows, MaxTasks)
    \/ PollerNext
    \/ \E w \in WorkflowIds : AggFindTasks(w, MaxRequests)
    \/ AggSaveWorkflow

SpecAgg == Init /\ [][NextAgg]_vars

NextLive ==
    \/ Factory(ApiMaxWorkflows, MaxTasks)
    \/ PollerNext
    \/ \E w \in WorkflowIds : AggFindTasks(w, LiveMaxRequests)
    \/ AggSaveWorkflow

\* the event loop runs every continuation that is ready: the poll loop and its
\* runs always go on; workflow creation and results requests come as they may
SpecLive == Init /\ [][NextLive]_vars /\ WF_vars(PollerNext)

\* the poll loop with stop() called at any moment of its run, every call in
\* flight terminating
NextStop ==
    \/ Factory(ApiMaxWorkflows, MaxTasks)
    \/ PollerNext
    \/ Stop

SpecStop == Init /\ [][NextStop]_vars /\ WF_vars(PollerNext)

\* ------------------------------------------------- failing store
\* prepare rejects (the store fails on findOne or on save, or the workflow is
\* not found): nothing is saved, the poller logs the error and goes on with
\* the next task of queuedTasks.

\* the error of prepare escaping to the catch block of the cycle
PollPrepareThrows_aborts ==
    /\ pc = "prepare"
    /\ queuedTasks # <<>>
    /\ errors' = errors \cup {<<Head(queuedTasks).taskId, PrepareError>>}
    /\ queuedTasks' = <<>>
    /\ pc' = EndOfCycle
    /\ UNCHANGED <<storeVars, stopFlag, readyTasks, i, runs, invoked, lastCall, agg, other>>

PollPrepareThrows ==
    /\ pc = "prepare"
    /\ queuedTasks # <<>>
    /\ errors' = errors \cup {<<Head(queuedTasks).taskId, PrepareError>>}
    /\ queuedTasks' = Tail(queuedTasks)
    /\ UNCHANGED <<storeVars, pc, stopFlag, readyTasks, i, runs, invoked, lastCall, agg, other>>

NextFault ==
    \/ Factory(ApiMaxWorkflows, MaxTasks)
    \/ PollerNext
    \/ Stop
    \/ PollPrepareThrows

SpecFault == Init /\ [][NextFault]_vars

\* the task given up as Skipped before the error is thrown
PollPrepareNotFound_skips ==
    /\ pc = "prepare"
    /\ queuedTasks # <<>>
    /\ taskRepository' = SaveTask([Head(queuedTasks) EXCEPT !.status = Skipped])
    /\ errors' = errors \cup {<<Head(queuedTasks).taskId, WorkflowNotFound>>}
    /\ queuedTasks' = Tail(queuedTasks)
    /\ UNCHANGED <<workflowRepository, resultRepository, pc, stopFlag,
                   readyTasks, i, runs, invoked, lastCall, agg, other>>

\* prepare with findOne returning no workflow (the row was removed from the
\* store from outside; the application never deletes one): the throw comes
\* before the first assignment and the first save
PollPrepareNotFound ==
    /\ pc = "prepare"
    /\ queuedTasks # <<>>
    /\ errors' = errors \cup {<<Head(queuedTasks).taskId, WorkflowNotFound>>}
    /\ queuedTasks' = Tail(queuedTasks)
    /\ UNCHANGED <<storeVars, pc, stopFlag, readyTasks, i, runs, invoked, lastCall, agg, other>>

NextNotFound ==
    \/ Factory(ApiMaxWorkflows, MaxTasks)
    \/ PollerNext
    \/ Stop
    \/ PollPrepareNotFound

SpecNotFound == Init /\ [][NextNotFound]_vars

\* ------------------------------------------------- more than one batch
\* The store after createWorkflowFromYAML for a definition of n steps with the
\* same step number and no dependencies: the first and the last step have a
\* registered job, the steps between them have none (their runs reject with the
\* task left InProgress); the report task follows at the next step number.

BatchTask(n, k) ==
    IF k = n + 1 THEN NewTask(1, 2, "reportGeneration", {})
    ELSE IF k \in {1, n} THEN NewTask(1, 1, "polygonArea", {})
    ELSE NewTask(1, 1, "unknownType", {})

InitBatch ==
    /\ \E n \in 1..MaxBatchTasks :
          /\ taskRepository = [k \in 1..(n + 1) |-> BatchTask(n, k)]
          /\ invoked = [k \in 1..(n + 1) |-> 0]
    /\ workflowRepository =
           <<[status |-> WfInitial, finalResult |-> NoFinalResult, factory |-> "done"]>>
    /\ resultRepository = <<>>
    /\ pc = "idle"
    /\ stopFlag = FALSE
    /\ queuedTasks = <<>>
    /\ readyTasks = <<>>
    /\ i = 0
    /\ runs = NoRuns
    /\ errors = {}
    /\ lastCall = NoCall
    /\ agg = NoAgg
    /\ other = NoOther

NextBatch ==
    \/ PollerNext
    \/ Stop

SpecBatch == InitBatch /\ [][NextBatch]_vars /\ WF_vars(PollerNext)


\* ------------------------------------------------- two poll loops
\* pool() called a second time on the same TaskWorker and the same store: each
\* call has its own position, queuedTasks, readyTasks, i and runs; the store
\* and the stop flag are shared. The actions of the poll loop act for the call
\* whose locals are in pc, queuedTasks, readyTasks, i and runs; the event loop
\* turning to the other call exchanges them with the locals kept in other.
Switch ==
    /\ pc' = other.pc
    /\ queuedTasks' = other.queuedTasks
    /\ readyTasks' = other.readyTasks
    /\ i' = other.i
    /\ runs' = other.runs
    /\ other' = [pc |-> pc, queuedTasks |-> queuedTasks, readyTasks |-> readyTasks,
                 i |-> i, runs |-> runs]
    /\ UNCHANGED <<storeVars, stopFlag, invoked, errors, lastCall, agg>>

\* the store after createWorkflowFromYAML for a definition of n steps with
\* the same step number, and neither pool() call started
InitTwo ==
    /\ \E n \in 1..TwoMaxTasks :
          /\ taskRepository = [k \in 1..(n + 1) |-> BatchTask(n, k)]
          /\ invoked = [k \in 1..(n + 1) |-> 0]
    /\ workflowRepository =
           <<[status |-> WfInitial, finalResult |-> NoFinalResult, factory |-> "done"]>>
    /\ resultRepository = <<>>
    /\ pc = "idle"
    /\ stopFlag = FALSE
    /\ queuedTasks = <<>>
    /\ readyTasks = <<>>
    /\ i = 0
    /\ runs = NoRuns
    /\ errors = {}
    /\ lastCall = NoCall
    /\ agg = NoAgg
    /\ other = NoOther

NextTwo ==
    \/ PollerNext
    \/ Switch

SpecTwo == InitTwo /\ [][NextTwo]_vars

\* ------------------------------------------------- a handler that hangs
\* job.run(task) returns a promise that never settles: no timeout is set on
\* it, so run stays at its await and the Promise.all of the batch with it
JobHangs(t) ==
    /\ pc = "batch"
    /\ t \in DOMAIN runs
    /\ runs[t].pc = "job"
    /\ runs' = [runs EXCEPT ![t].pc = "hung"]
    /\ UNCHANGED <<storeVars, pc, stopFlag, queuedTasks, readyTasks, i, invoked,
                   errors, lastCall, agg, other>>

NextHang ==
    \/ PollerNext
    \/ Stop
    \/ \E t \in TaskIds : JobHangs(t)

SpecHang == InitBatch /\ [][NextHang]_vars /\ WF_vars(PollerNext)

\* ------------------------------------------------- failing fetch
\* what the catch block of the cycle logs
CycleError == "Error during task pool cycle"

\* getQueuedTasks rejects, in pool() before the first cycle or after the
\* sleep: the catch block of the cycle logs the error and the loop sleeps
GetQueuedTasksThrows ==
    /\ \/ pc = "idle"
       \/ pc = "sleep" /\ ~stopFlag
    /\ stopFlag' = FALSE
    /\ errors' = errors \cup {<<0, CycleError>>}
    /\ pc' = "sleep"
    /\ UNCHANGED <<storeVars, queuedTasks, readyTasks, i, runs, invoked,
                   lastCall, agg, other>>

\* the error of getReadyTasks escaping from pool()
GetReadyTasksThrows_escapes ==
    /\ pc = "prepare"
    /\ queuedTasks = <<>>
    /\ readyTasks' = <<>>
    /\ i' = 0
    /\ runs' = NoRuns
    /\ pc' = "rejected"
    /\ UNCHANGED <<storeVars, stopFlag, queuedTasks, invoked, errors, lastCall, agg, other>>

\* getReadyTasks rejects after the loop over queuedTasks: no batch is
\* started, the catch block of the cycle logs the error and the cycle ends
GetReadyTasksThrows ==
    /\ pc = "prepare"
    /\ queuedTasks = <<>>
    /\ readyTasks' = <<>>
    /\ i' = 0
    /\ runs' = NoRuns
    /\ errors' = errors \cup {<<0, CycleError>>}
    /\ pc' = EndOfCycle
    /\ UNCHANGED <<storeVars, stopFlag, queuedTasks, invoked, lastCall, agg, other>>

NextFetch ==
    \/ Factory(ApiMaxWorkflows, MaxTasks)
    \/ PollerNext
    \/ Stop
    \/ GetQueuedTasksThrows
    \/ GetReadyTasksThrows

SpecFetch == Init /\ [][NextFetch]_vars /\ WF_vars(PollerNext)

\* ================================================= properties

StatusOf(t) == taskRepository[t].status

\* the statuses a predecessor must have for the ordering gate to open
Done == {Completed, Failed}

\* some task of the workflow of t with a smaller step number is not Done
Blocked(t) ==
    \E a \in TaskIds :
        /\ taskRepository[a].workflowId = taskRepository[t].workflowId
        /\ taskRepository[a].stepNumber < taskRepository[t].stepNumber
        /\ StatusOf(a) \notin Done

\* this step is the direct call prepare(t)
PrepareCall(t) == lastCall'.op = "prepare" /\ lastCall'.taskId = t

\* this step is the direct call run(t)
RunCall(t) == lastCall'.op = "run" /\ lastCall'.taskId = t

\* this step is the poller's call of prepare on the task t
PollPrepareCall(t) ==
    /\ pc = "prepare"
    /\ queuedTasks # <<>>
    /\ queuedTasks' = Tail(queuedTasks)
    /\ Head(queuedTasks).taskId = t

\* job.run of t has been invoked by the poller and has not returned
InJob(t) == t \in DOMAIN runs /\ runs[t].pc \in {"job", "jobSave", "jobReturn"}

StatusChanges ==
    {<<Queued, Ready>>, <<Queued, Skipped>>, <<Ready, InProgress>>,
     <<InProgress, Completed>>, <<InProgress, Failed>>}

\* C1: under the poll loop every change of a task's stored status is one of
\* Queued->Ready, Queued->Skipped, Ready->InProgress, InProgress->Completed,
\* InProgress->Failed.
C1_StatusTransitions ==
    [][\A t \in TaskIds :
          StatusOf(t)' # StatusOf(t) => <<StatusOf(t), StatusOf(t)'>> \in StatusChanges]_vars

\* C1 witness: a Completed, a Failed and a Skipped task: all five changes happened
C1_Witness ==
    \E t1, t2, t3 \in TaskIds :
        StatusOf(t1) = Completed /\ StatusOf(t2) = Failed /\ StatusOf(t3) = Skipped

\* C2: under any sequence of direct prepare and run calls, a Completed, Failed
\* or Skipped task keeps its status and a Ready or InProgress task is never set
\* back to Queued.
C2_TerminalForever ==
    [][\A t \in TaskIds :
          /\ StatusOf(t) \in {Completed, Failed, Skipped} => StatusOf(t)' = StatusOf(t)
          /\ StatusOf(t) \in {Ready, InProgress} => StatusOf(t)' # Queued]_vars

\* C3: while the handler of a task runs under the poller, every dependency of
\* the task is Completed and every task of its workflow with a smaller step
\* number is Completed or Failed.
C3_HandlerPreconditions ==
    \A t \in TaskIds :
        InJob(t) =>
            /\ \A d \in taskRepository[t].dependencies : StatusOf(d) = Completed
            /\ ~Blocked(t)

\* C3 witness: the handler of a task with a dependency and a predecessor runs
C3_Witness ==
    \E t \in TaskIds :
        /\ InJob(t)
        /\ taskRepository[t].dependencies # {}
        /\ \E a \in TaskIds :
              /\ taskRepository[a].workflowId = taskRepository[t].workflowId
              /\ taskRepository[a].stepNumber < taskRepository[t].stepNumber
              /\ a \notin taskRepository[t].dependencies

\* C4: prepare on a task B without dependencies yields Queued while some task
\* of the workflow with a smaller step number is neither Completed nor Failed,
\* and yields Ready once they all are.
C4_OrderingGate ==
    [][\A b \in TaskIds :
          (PrepareCall(b) /\ taskRepository[b].dependencies = {}) =>
              StatusOf(b)' = IF Blocked(b) THEN Queued ELSE Ready]_vars

\* C4 witness: prepare made B Ready behind a Failed predecessor
C4_Witness ==
    /\ lastCall.op = "prepare"
    /\ taskRepository[lastCall.taskId].dependencies = {}
    /\ StatusOf(lastCall.taskId) = Ready
    /\ \E a \in TaskIds :
          /\ taskRepository[a].stepNumber < taskRepository[lastCall.taskId].stepNumber
          /\ StatusOf(a) = Failed

\* C5 as stated: prepare on a task C with two dependencies yields Ready if and
\* only if both dependencies are Completed, whatever the other tasks are.
C5_ReadyIffCompleted ==
    [][\A c \in TaskIds :
          (PrepareCall(c) /\ Cardinality(taskRepository[c].dependencies) = 2) =>
              (StatusOf(c)' = Ready
                  <=> \A d \in taskRepository[c].dependencies : StatusOf(d) = Completed)]_vars

\* C5 amended: prepare on a task C with two dependencies yields Ready if and
\* only if both dependencies are Completed and every task of the workflow with
\* a smaller step number is Completed or Failed.
C5_ReadyIffCompletedAndUnblocked ==
    [][\A c \in TaskIds :
          (PrepareCall(c) /\ Cardinality(taskRepository[c].dependencies) = 2) =>
              (StatusOf(c)' = Ready
                  <=> /\ \A d \in taskRepository[c].dependencies : StatusOf(d) = Completed
                      /\ ~Blocked(c))]_vars

\* C5 witness: prepare made a task with two Completed dependencies Ready
C5_Witness ==
    /\ lastCall.op = "prepare"
    /\ Cardinality(taskRepository[lastCall.taskId].dependencies) = 2
    /\ \A d \in taskRepository[lastCall.taskId].dependencies : StatusOf(d) = Completed
    /\ StatusOf(lastCall.taskId) = Ready

\* C6 as stated: the poller's prepare on a task C with two dependencies, one of
\* them Failed, yields Skipped whatever the other dependency is.
C6_SkippedIfAnyFailed ==
    [][\A c \in TaskIds :
          (/\ PollPrepareCall(c)
           /\ Cardinality(taskRepository[c].dependencies) = 2
           /\ \E d \in taskRepository[c].dependencies : StatusOf(d) = Failed)
          => StatusOf(c)' = Skipped]_vars

\* C6 amended: the poller's prepare on a task C with two dependencies, one of
\* them Failed, yields Skipped provided every task of the workflow with a
\* smaller step number is Completed or Failed.
C6_SkippedIfAnyFailedAndUnblocked ==
    [][\A c \in TaskIds :
          (/\ PollPrepareCall(c)
           /\ Cardinality(taskRepository[c].dependencies) = 2
           /\ \E d \in taskRepository[c].dependencies : StatusOf(d) = Failed
           /\ ~Blocked(c))
          => StatusOf(c)' = Skipped]_vars

\* C6 witness: a Skipped task with a Failed and a Completed dependency
C6_Witness ==
    \E c \in TaskIds :
        /\ StatusOf(c) = Skipped
        /\ \E d1, d2 \in taskRepository[c].dependencies :
              StatusOf(d1) = Failed /\ StatusOf(d2) = Completed

\* C7: the poller's prepare on a task without dependencies whose predecessors
\* by step number are all Completed or Failed makes the task Ready in that call.
C7_NoDependenciesReady ==
    [][\A t \in TaskIds :
          (/\ PollPrepareCall(t)
           /\ taskRepository[t].dependencies = {}
           /\ \A a \in TasksOf(taskRepository[t].workflowId) :
                 taskRepository[a].stepNumber < taskRepository[t].stepNumber
                     => StatusOf(a) \in {Completed, Failed})
          => (StatusOf(t) = Queued /\ StatusOf(t)' = Ready)]_vars

\* C7 witness: a task without dependencies is dispatched behind a Failed task
C7_Witness ==
    \E t \in DOMAIN runs :
        /\ taskRepository[t].dependencies = {}
        /\ runs[t].pc = "saveInProgress"
        /\ \E a \in TasksOf(taskRepository[t].workflowId) :
              /\ taskRepository[a].stepNumber < taskRepository[t].stepNumber
              /\ StatusOf(a) = Failed

\* C8: a second prepare(t) directly after a first prepare(t) leaves the status
\* of t as the first call left it.
C8_PrepareIdempotent ==
    [][\A t \in TaskIds :
          (PrepareCall(t) /\ lastCall'.repeat) => StatusOf(t)' = StatusOf(t)]_vars

\* C8 witness: prepare was called twice in a row on a task it makes Skipped
C8_Witness ==
    /\ lastCall.op = "prepare"
    /\ lastCall.repeat
    /\ StatusOf(lastCall.taskId) = Skipped

\* C9: run on a task that is not Ready fails with 'not ready to run', invokes
\* no handler and changes no task, no Result and no workflow.
C9_RunNotReady ==
    [][\A t \in TaskIds :
          (RunCall(t) /\ StatusOf(t) # Ready) =>
              /\ lastCall'.error = NotReadyError
              /\ invoked' = invoked
              /\ taskRepository' = taskRepository
              /\ resultRepository' = resultRepository
              /\ workflowRepository' = workflowRepository]_vars

\* C9 witness: run was rejected on a task that is InProgress
C9_Witness ==
    /\ lastCall.op = "run"
    /\ lastCall.error = NotReadyError
    /\ StatusOf(lastCall.taskId) = InProgress

\* C10: a task whose run failed for want of a registered job is Failed once
\* the poller has logged the error.
C10_MissingJobFails ==
    \A t \in TaskIds : <<t, NoJobError>> \in errors => StatusOf(t) = Failed

\* the handler of t, invoked by the poller, throws in this step
HandlerThrows(t) ==
    /\ t \in DOMAIN runs
    /\ runs[t].pc = "job"
    /\ t \in DOMAIN runs'
    /\ runs'[t].pc = "rejected"

\* the batch that holds the failed run of t settles in this step
BatchSettles(t) ==
    /\ pc = "batch"
    /\ t \in DOMAIN runs
    /\ runs[t].pc = "rejected"
    /\ runs[t].error = JobError
    /\ \A u \in DOMAIN runs : runs[u].pc \in {"resolved", "rejected"}
    /\ runs' # runs

\* some Result of the store belongs to the task t
HasResult(t) == \E r \in 1..Len(resultRepository) : resultRepository[r].taskId = t

\* C11: when the handler of a dispatched task throws, the task is saved as
\* Failed, no Result is written, run rejects with the handler's error, and the
\* poller logs it and goes on with the next batch or the end of the cycle; a
\* task whose failure was logged is Failed and has no Result.
C11_HandlerFailure ==
    [][\A t \in TaskIds :
          /\ HandlerThrows(t) =>
                /\ StatusOf(t) = InProgress
                /\ StatusOf(t)' = Failed
                /\ taskRepository'[t].progress = NULL
                /\ resultRepository' = resultRepository
                /\ runs'[t].error = JobError
          /\ BatchSettles(t) =>
                /\ <<t, JobError>> \in errors'
                /\ pc' = IF i + batchSize < Len(readyTasks) THEN "batch"
                         ELSE IF stopFlag THEN "stopped" ELSE "sleep"
                /\ taskRepository' = taskRepository
          /\ <<t, JobError>> \in errors' => (StatusOf(t)' = Failed /\ ~HasResult(t)')]_vars

\* C11 witness: the failure of a handler was logged and a later cycle prepares
\* the tasks that are still Queued
C11_Witness ==
    \E t \in TaskIds :
        /\ <<t, JobError>> \in errors
        /\ StatusOf(t) = Failed
        /\ pc = "prepare"
        /\ queuedTasks # <<>>

\* the handler of t, invoked by the poller, returns in this step
HandlerReturns(t) ==
    /\ t \in DOMAIN runs
    /\ runs[t].pc \in {"job", "jobReturn"}
    /\ t \in DOMAIN runs'
    /\ runs'[t].pc = "saveCompleted"

\* run saves the task after its handler returned
SavesCompleted(t) ==
    /\ t \in DOMAIN runs
    /\ runs[t].pc = "saveCompleted"
    /\ t \in DOMAIN runs'
    /\ runs'[t].pc = "findWorkflow"

\* the Results of the store that belong to the task t
ResultsOf(t) == {r \in 1..Len(resultRepository) : resultRepository[r].taskId = t}

\* C12: when the handler of a dispatched task returns, run appends exactly one
\* Result, which belongs to the task, and then saves the task as Completed with
\* that Result as resultId and progress null; every Completed task has a
\* resultId that refers to a stored Result of that task.
C12_HandlerSuccess ==
    [][\A t \in TaskIds :
          /\ HandlerReturns(t) =>
                /\ Len(resultRepository') = Len(resultRepository) + 1
                /\ resultRepository'[Len(resultRepository')].taskId = t
                /\ \A r \in 1..Len(resultRepository) :
                       resultRepository'[r] = resultRepository[r]
                /\ ResultsOf(t) = {}
          /\ SavesCompleted(t) =>
                /\ StatusOf(t)' = Completed
                /\ taskRepository'[t].progress = NULL
                /\ ResultsOf(t)' = {taskRepository'[t].resultId}
          /\ StatusOf(t)' = Completed =>
                /\ taskRepository'[t].resultId \in 1..Len(resultRepository')
                /\ resultRepository'[taskRepository'[t].resultId].taskId = t]_vars

\* C12 witness: two Completed tasks, each with its own Result
C12_Witness ==
    \E t, u \in TaskIds :
        /\ t # u
        /\ StatusOf(t) = Completed
        /\ StatusOf(u) = Completed
        /\ ResultsOf(t) = {taskRepository[t].resultId}
        /\ ResultsOf(u) = {taskRepository[u].resultId}

WorkflowOf(t) == taskRepository[t].workflowId

\* C13: once run(t) has finished, by resolving or by rejecting with the
\* handler's error, the status of the workflow of t has been recomputed and
\* saved; after a handler failure it is Failed.
C13_WorkflowRecomputed ==
    \A t \in DOMAIN runs :
        /\ runs[t].pc = "resolved" => runs[t].workflow.status # NULL
        /\ (runs[t].pc = "rejected" /\ runs[t].error = JobError) =>
               /\ runs[t].workflow.status # NULL
               /\ workflowRepository[WorkflowOf(t)].status = WfFailed

\* run(t) saves the recomputed workflow status in this step
SavesWorkflow(t) ==
    /\ t \in DOMAIN runs
    /\ runs[t].pc = "saveWorkflow"
    /\ t \in DOMAIN runs'
    /\ runs'[t].pc = "resolved"

\* no other run of the workflow of t is in flight
RunsAlone(t) ==
    \A u \in DOMAIN runs :
        (u # t /\ WorkflowOf(u) = WorkflowOf(t)) => runs[u].pc \in {"resolved", "rejected"}

\* C14: when run(t) saves the recomputed status with no other run of
\* the workflow in flight, the saved status is Failed if a task of the workflow
\* is Failed, else Completed if all its tasks are Completed, else InProgress.
C14_StatusDerivation ==
    [][\A t \in TaskIds :
          (SavesWorkflow(t) /\ RunsAlone(t)) =>
              workflowRepository'[WorkflowOf(t)].status =
                  IF \E u \in TasksOf(WorkflowOf(t)) : StatusOf(u) = Failed THEN WfFailed
                  ELSE IF \A u \in TasksOf(WorkflowOf(t)) : StatusOf(u) = Completed
                       THEN WfCompleted
                       ELSE WfInProgress]_vars

\* a, b, c are tasks of one workflow at increasing step numbers: a without
\* dependencies, b depending on a, c depending on a and b
Chain(a, b, c) ==
    /\ WorkflowOf(a) = WorkflowOf(b)
    /\ WorkflowOf(b) = WorkflowOf(c)
    /\ taskRepository[a].stepNumber < taskRepository[b].stepNumber
    /\ taskRepository[b].stepNumber < taskRepository[c].stepNumber
    /\ taskRepository[a].dependencies = {}
    /\ taskRepository[b].dependencies = {a}
    /\ taskRepository[c].dependencies = {a, b}

\* C15: in a workflow a, b, c (b depending on a, c on a and b) whose task a
\* Failed, the handler of b is never invoked and b is Queued or Skipped; once
\* the poller has made b Skipped and ended that cycle, the workflow is Failed.
C15_FailureScenario ==
    \A a, b, c \in TaskIds :
        (Chain(a, b, c) /\ StatusOf(a) = Failed) =>
            /\ invoked[b] = 0
            /\ StatusOf(b) \in {Queued, Skipped}
            /\ (StatusOf(b) = Skipped /\ pc = "sleep") =>
                   workflowRepository[WorkflowOf(a)].status = WfFailed

\* the workflow w consists of a chain a, b, c of tasks with registered jobs
ChainOnly(w, a, b, c) ==
    /\ Chain(a, b, c)
    /\ TasksOf(w) = {a, b, c}
    /\ \A t \in {a, b, c} : taskRepository[t].taskType \in jobMap

SuccessShape(w) ==
    IF w \in WorkflowIds
    THEN \E a, b, c \in TaskIds : ChainOnly(w, a, b, c)
    ELSE FALSE

AllCompleted(w) == \A t \in TasksOf(w) : StatusOf(t) = Completed

SomeFailed(w) == \E t \in TasksOf(w) : StatusOf(t) = Failed

\* the chain is Completed and so is the workflow, or a handler failed, or the
\* workflow is no longer the chain
SuccessOutcome(w) ==
    IF SuccessShape(w)
    THEN \/ AllCompleted(w) /\ workflowRepository[w].status = WfCompleted
         \/ SomeFailed(w)
    ELSE TRUE

\* this step is taskRepository.find of a results request for w
AggFinds(w) == agg.pc = "idle" /\ agg'.pc = "save" /\ agg'.workflowId = w

\* this step is the save that ends a results request for w
AggSaves(w) == agg.pc = "save" /\ agg.workflowId = w /\ agg'.pc = "idle"

TerminalOutcome(w) ==
    IF w \in WorkflowIds
    THEN /\ \A t \in TasksOf(w) : StatusOf(t) \in {Completed, Failed, Skipped}
         /\ workflowRepository[w].status \in {WfCompleted, WfFailed}
    ELSE FALSE

\* the workflow w was created completely and all its tasks have registered jobs
Created(w) ==
    IF w \in WorkflowIds
    THEN /\ workflowRepository[w].factory = "done"
         /\ \A t \in TasksOf(w) : taskRepository[t].taskType \in jobMap
    ELSE FALSE

\* C17: under the fair poll loop every workflow that was created completely and
\* whose tasks all have registered jobs eventually has every task Completed,
\* Failed or Skipped and the workflow status Completed or Failed.
C17_EventualOutcome ==
    \A w \in 1..ApiMaxWorkflows : Created(w) ~> TerminalOutcome(w)

\* C18: with poll cycles and results requests interleaved in any way, a
\* workflow whose stored status is Failed has a Failed task and a workflow
\* whose stored status is Completed has only Completed tasks.
C18_StatusDerived ==
    \A w \in WorkflowIds :
        /\ workflowRepository[w].status = WfFailed => SomeFailed(w)
        /\ workflowRepository[w].status = WfCompleted => AllCompleted(w)

\* the tasks of w that are Completed and have a stored Result
CompletedWithResult(w) ==
    {t \in TasksOf(w) : StatusOf(t) = Completed /\ ResultsOf(t) # {}}

\* C19: a results request for w computes a final result with one entry per
\* task, completedTasks = the number of tasks Completed with a stored Result,
\* failedTasks = the number of all other tasks, success = (failedTasks = 0),
\* and the status Completed if success, else Failed; its save stores both.
C19_Aggregation ==
    [][\A w \in WorkflowIds :
          /\ AggFinds(w) =>
                /\ agg'.workflow.finalResult.tasks = Cardinality(TasksOf(w))
                /\ agg'.workflow.finalResult.completedTasks =
                       Cardinality(CompletedWithResult(w))
                /\ agg'.workflow.finalResult.failedTasks =
                       Cardinality(TasksOf(w) \ CompletedWithResult(w))
                /\ agg'.workflow.finalResult.success =
                       (agg'.workflow.finalResult.failedTasks = 0)
                /\ agg'.workflow.status =
                       IF agg'.workflow.finalResult.success THEN WfCompleted
                       ELSE WfFailed
          /\ AggSaves(w) =>
                /\ workflowRepository'[w].finalResult = agg.workflow.finalResult
                /\ workflowRepository'[w].status = agg.workflow.status]_vars

\* C19 witness: two Completed tasks and a Failed one; the stored final result
\* has completedTasks = 2, failedTasks = 1, success = false, status Failed
C19_Witness ==
    \E w \in WorkflowIds :
        /\ Cardinality({t \in TasksOf(w) : StatusOf(t) = Completed}) = 2
        /\ Cardinality({t \in TasksOf(w) : StatusOf(t) = Failed}) = 1
        /\ workflowRepository[w].status = WfFailed
        /\ workflowRepository[w].finalResult.by = "aggregator"
        /\ workflowRepository[w].finalResult.tasks = 3
        /\ workflowRepository[w].finalResult.completedTasks = 2
        /\ workflowRepository[w].finalResult.failedTasks = 1
        /\ ~workflowRepository[w].finalResult.success

\* the stored final result of w is the one a results request computes from
\* the tasks as they are now
StoredIsCurrent(w) ==
    /\ workflowRepository[w].finalResult.by = "aggregator"
    /\ workflowRepository[w].finalResult.tasks = Cardinality(TasksOf(w))
    /\ workflowRepository[w].finalResult.completedTasks =
           Cardinality(CompletedWithResult(w))
    /\ workflowRepository[w].finalResult.failedTasks =
           Cardinality(TasksOf(w) \ CompletedWithResult(w))

\* a second results request computes what the first one stored
AggIdempotent ==
    [][\A w \in WorkflowIds :
          (AggFinds(w) /\ StoredIsCurrent(w)) =>
              /\ agg'.workflow.finalResult = workflowRepository[w].finalResult
              /\ agg'.workflow.status =
                     IF workflowRepository[w].finalResult.success THEN WfCompleted
                     ELSE WfFailed]_vars

\* no step of a results request changes a task or a Result
AggReadOnly ==
    [][\A w \in WorkflowIds :
          (AggFinds(w) \/ AggSaves(w)) =>
              /\ taskRepository' = taskRepository
              /\ resultRepository' = resultRepository]_vars

\* a workflow whose tasks are all Completed does not end as Failed: the poll
\* loop sleeps, no results request is in flight
AggKeepsOutcome ==
    [](\A w \in WorkflowIds :
          (/\ pc = "sleep"
           /\ agg.pc = "idle"
           /\ TasksOf(w) # {}
           /\ AllCompleted(w))
          => workflowRepository[w].status # WfFailed)

\* C20: a results request repeated with no task change in between computes
\* the same final result and status again, no results request changes a task
\* or a Result, and results requests made while the workflow executes do not
\* change its outcome: a workflow whose tasks all Completed does not end Failed.
C20_AggregatorSafe == AggIdempotent /\ AggReadOnly /\ AggKeepsOutcome

\* the ids of the entities of a fetched list
IdsOf(list) == {list[k].taskId : k \in 1..Len(list)}

\* this step starts a cycle: getQueuedTasks returns
FetchesQueued == pc \in {"idle", "sleep"} /\ pc' = "prepare"

\* this step ends the loop over queuedTasks: getReadyTasks returns
FetchesReady == pc = "prepare" /\ pc' # "prepare"

\* the steps of the prepare phase of a cycle
PreparePhase ==
    /\ FetchesQueued =>
          /\ IdsOf(queuedTasks') = {t \in TaskIds : StatusOf(t) = Queued}
          /\ Cardinality(IdsOf(queuedTasks')) = Len(queuedTasks')
    /\ (pc = "prepare" /\ pc' = "prepare" /\ queuedTasks' # queuedTasks) =>
          /\ queuedTasks' = Tail(queuedTasks)
          /\ \A t \in TaskIds \ {Head(queuedTasks).taskId} :
                 taskRepository'[t] = taskRepository[t]
    /\ FetchesReady =>
          /\ queuedTasks = <<>>
          /\ IdsOf(readyTasks') \cup DOMAIN runs' = {t \in TaskIds : StatusOf(t) = Ready}
          /\ Batch(getReadyTasksResult, 0) = DOMAIN runs'

\* a Ready task is in the prepare phase of its cycle, or its run is
\* dispatched, or it waits for a later batch of the cycle
ReadyIsDispatched ==
    \A t \in TaskIds :
        StatusOf(t) = Ready =>
            \/ pc = "prepare"
            \/ /\ pc = "batch"
               /\ t \in DOMAIN runs
               /\ runs[t].pc = "saveInProgress"
            \/ /\ pc = "batch"
               /\ \E k \in (i + batchSize + 1)..Len(readyTasks) : readyTasks[k].taskId = t

\* C21: a cycle fetches every Queued task once; prepare is called on the
\* fetched tasks one after the other, each once, and only the task it is called
\* on changes; the Ready tasks are fetched and runs are dispatched only after
\* the last prepare call; every Ready task is fetched for dispatch, so that no
\* task is Ready outside the prepare phase unless its run is dispatched or
\* waits for a later batch of the cycle.
C21_PrepareBeforeRun ==
    /\ [][PreparePhase]_vars
    /\ [](pc = "prepare" => (DOMAIN runs = {} /\ readyTasks = <<>>))
    /\ []ReadyIsDispatched

\* C21 witness: two tasks that prepare made Ready in one cycle are dispatched
\* together while a third task, prepared in the same cycle, is still Queued
C21_Witness ==
    /\ pc = "batch"
    /\ Cardinality(DOMAIN runs) = 2
    /\ \A t \in DOMAIN runs : runs[t].pc = "saveInProgress" /\ StatusOf(t) = Ready
    /\ \E t \in TaskIds : StatusOf(t) = Queued

\* prepare rejects for the task t in this step
PrepareThrows(t) ==
    /\ pc = "prepare"
    /\ queuedTasks # <<>>
    /\ Head(queuedTasks).taskId = t
    /\ errors' = errors \cup {<<t, PrepareError>>}
    /\ errors' # errors

\* C22: when prepare rejects for a Queued task, the poller logs the error,
\* changes no task and stays in the loop over the fetched tasks with the
\* remaining ones; the rest of the cycle is as in every cycle: the remaining
\* tasks are prepared one by one, then the Ready tasks are fetched and all
\* dispatched, and the cycle ends with a new cycle to follow.
C22_PrepareErrorIsolated ==
    /\ [][\A t \in TaskIds :
             PrepareThrows(t) =>
                 /\ pc' = "prepare"
                 /\ queuedTasks' = Tail(queuedTasks)
                 /\ storeVars' = storeVars
                 /\ stopFlag' = stopFlag]_vars
    /\ [][PreparePhase]_vars
    /\ []ReadyIsDispatched
    /\ [][(pc # "sleep" /\ pc' = "sleep") => ~stopFlag]_vars

\* C22 witness: prepare rejected for a task, which is still Queued, and a task
\* fetched after it is dispatched
C22_Witness ==
    \E t, u \in TaskIds :
        /\ t < u
        /\ <<t, PrepareError>> \in errors
        /\ StatusOf(t) = Queued
        /\ invoked[t] = 0
        /\ pc = "batch"
        /\ u \in DOMAIN runs
        /\ runs[u].pc = "job"

\* the run of t has resolved or rejected
Settled(t) ==
    IF t \in DOMAIN runs THEN runs[t].pc \in {"resolved", "rejected"} ELSE FALSE

\* the run of t is dispatched in the current batch or waits for a later one
Waits(t) ==
    /\ pc = "batch"
    /\ \E k \in (i + 1)..Len(readyTasks) : readyTasks[k].taskId = t

\* some run of the current batch has rejected
SomeRejected == \E u \in DOMAIN runs : runs[u].pc = "rejected"

\* the run of t rejects in this step
Rejects(t) ==
    /\ t \in DOMAIN runs
    /\ runs[t].pc # "rejected"
    /\ t \in DOMAIN runs'
    /\ runs'[t].pc = "rejected"

\* the tasks at the positions from + 1 .. from + batchSize of the list
Slice(list, from) ==
    {list[k].taskId : k \in {j \in 1..Len(list) : from < j /\ j <= from + batchSize}}

\* the current batch ends in this step
BatchEnds == pc = "batch" /\ (i' # i \/ pc' # "batch")

\* a rejecting run leaves the other runs, the other tasks and the batch alone
RejectionIsLocal ==
    \A t \in TaskIds :
        Rejects(t) =>
            /\ pc' = "batch"
            /\ i' = i
            /\ readyTasks' = readyTasks
            /\ stopFlag' = stopFlag
            /\ \A u \in DOMAIN runs \ {t} : u \in DOMAIN runs' /\ runs'[u] = runs[u]
            /\ \A u \in TaskIds \ {t} : taskRepository'[u] = taskRepository[u]

\* a batch with a rejected run ends like any other: the rejections are logged,
\* then the next batch is dispatched, or the cycle ends in the sleep
RejectedBatchEnds ==
    (BatchEnds /\ SomeRejected) =>
        /\ \A u \in DOMAIN runs : runs[u].pc = "rejected" => <<u, runs[u].error>> \in errors'
        /\ IF i + batchSize < Len(readyTasks)
           THEN /\ pc' = "batch"
                /\ DOMAIN runs' = Slice(readyTasks, i + batchSize)
                /\ \A u \in DOMAIN runs' : runs'[u].pc = "saveInProgress"
           ELSE pc' = IF stopFlag THEN "stopped" ELSE "sleep"

\* C23: a run that rejects changes no other run and no other task and does
\* not end its batch; the batch that holds it ends when all its runs have
\* settled, the rejection is logged, and the next batch of the cycle is
\* dispatched or the cycle ends in the sleep before the next cycle (in the end
\* of the loop when stop was requested); the cycle ends only when no fetched
\* task waits for its run any more, and a cycle with a rejected run does end.
C23_RunErrorIsolated ==
    /\ [][RejectionIsLocal]_vars
    /\ [][RejectedBatchEnds]_vars
    /\ [][(pc = "batch" /\ pc' # "batch") => \A t \in TaskIds : ~Waits(t) \/ Settled(t)]_vars
    /\ (pc = "batch" /\ SomeRejected) ~> (pc \in {"sleep", "stopped"})

\* the first batch held a run rejected for its missing job and a completed
\* task, and a task of the second batch has completed
C23_Witness ==
    /\ pc = "batch"
    /\ i = batchSize
    /\ <<2, NoJobError>> \in errors
    /\ StatusOf(1) = Completed
    /\ SomeRejected
    /\ \E t \in DOMAIN runs : runs[t].pc = "resolved" /\ StatusOf(t) = Completed

\* the steps of the dispatch phase of a cycle
DispatchPhase ==
    /\ FetchesReady =>
          /\ i' = 0
          /\ DOMAIN runs' = Slice(readyTasks', 0)
    /\ (pc = "batch" /\ pc' = "batch" /\ i' = i) => DOMAIN runs' = DOMAIN runs
    /\ (pc = "batch" /\ pc' = "batch" /\ i' # i) =>
          /\ \A u \in DOMAIN runs : runs[u].pc \in {"resolved", "rejected"}
          /\ i' = i + batchSize
          /\ readyTasks' = readyTasks
          /\ DOMAIN runs' = Slice(readyTasks, i')
          /\ DOMAIN runs' # {}
    /\ (pc = "batch" /\ pc' # "batch") =>
          /\ \A u \in DOMAIN runs : runs[u].pc \in {"resolved", "rejected"}
          /\ i + batchSize >= Len(readyTasks)

\* C24: the fetched Ready tasks are distinct; the first batch is the first
\* batchSize of them, each following batch the next batchSize, dispatched in the
\* step in which the last run of the batch before it has settled; the runs of
\* a batch stay the same until then, so that at most batchSize runs are in
\* flight; the cycle ends only when the last batch has reached the end of the
\* fetched tasks and has settled.
C24_BatchBound ==
    /\ [](Cardinality(DOMAIN runs) <= batchSize)
    /\ [](Cardinality(IdsOf(readyTasks)) = Len(readyTasks))
    /\ [][DispatchPhase]_vars

\* more than batchSize tasks were fetched, the first batch was full and has
\* settled, and a run of the second batch is in flight
C24_Witness ==
    /\ pc = "batch"
    /\ Len(readyTasks) > batchSize
    /\ i = batchSize
    /\ \E t \in DOMAIN runs : runs[t].pc = "job"
    /\ \A k \in 1..batchSize : StatusOf(readyTasks[k].taskId) # Ready

\* the steps of the loop once stop was requested
StopPhase ==
    /\ stopFlag => stopFlag'
    /\ stopFlag => ~FetchesQueued
    /\ (pc # "sleep" /\ pc' = "sleep") => ~stopFlag
    /\ (stopFlag /\ pc = "prepare") => pc' \in {"prepare", "batch", "stopped"}
    /\ (stopFlag /\ pc = "batch") => pc' \in {"batch", "stopped"}
    /\ (pc = "batch" /\ pc' = "stopped") =>
          /\ \A u \in DOMAIN runs : runs[u].pc \in {"resolved", "rejected"}
          /\ i + batchSize >= Len(readyTasks)
    /\ (pc # "stopped" /\ pc' = "stopped") => stopFlag

\* C25: once the stop flag is set it stays set and the loop ends; getQueuedTasks
\* is not called again; the prepare calls and the batches of the current cycle
\* go on, and the loop ends from the last batch only when all its runs have
\* settled; the sleep is entered only with the flag clear, so that a flag seen
\* at the end of a cycle ends the loop at once.
C25_CooperativeStop ==
    /\ [][StopPhase]_vars
    /\ stopFlag ~> (pc = "stopped")

\* the loop has ended on the flag after a cycle that completed a task, with
\* a Queued task left for a cycle that never starts
C25_Witness ==
    /\ pc = "stopped"
    /\ stopFlag
    /\ \E t, u \in TaskIds :
          /\ StatusOf(t) = Completed
          /\ invoked[t] = 1
          /\ StatusOf(u) = Queued
          /\ ~Blocked(u)

\* the steps that dispatch a task and invoke its handler
DispatchOnce ==
    /\ FetchesReady =>
          \A k \in 1..Len(readyTasks') : StatusOf(readyTasks'[k].taskId) = Ready
    /\ \A t \in TaskIds :
          /\ invoked'[t] # invoked[t] =>
                /\ invoked'[t] = invoked[t] + 1
                /\ t \in DOMAIN runs
                /\ runs[t].pc = "saveInProgress"
                /\ StatusOf(t) = Ready
                /\ taskRepository'[t].status = InProgress
          /\ StatusOf(t) \notin {Queued, Ready} => taskRepository'[t].status # Ready

\* C26: the handler of a task is invoked at most once: it is invoked in the
\* step in which its run, dispatched for a task fetched with the stored status
\* Ready, saves the InProgress status; a task that has left Ready never
\* returns to it, and a Ready task is outside the prepare phase only while its
\* run is dispatched or waits for a later batch, so that no fetch finds it.
C26_InvokedOnce ==
    /\ [](\A t \in TaskIds : invoked[t] <= 1)
    /\ [][DispatchOnce]_vars
    /\ []ReadyIsDispatched

\* C26 as stated: moreover the InProgress status is in the store whenever the
\* run of the task is suspended at its first await.
C26_PersistedBeforeAwait ==
    /\ \A t \in TaskIds : invoked[t] <= 1
    /\ \A t \in DOMAIN runs :
          runs[t].pc = "saveInProgress" => StatusOf(t) = InProgress

\* a task has completed after one invocation of its handler, and in a later
\* cycle the run of another task is suspended before its first save, the
\* store still holding Ready
C26_Witness ==
    \E t, u \in TaskIds :
        /\ StatusOf(t) = Completed
        /\ invoked[t] = 1
        /\ t \notin DOMAIN runs
        /\ u \in DOMAIN runs
        /\ runs[u].pc = "saveInProgress"
        /\ StatusOf(u) = Ready
        /\ invoked[u] = 0

\* the Result r belongs to a task whose handler has returned: the task is
\* Completed and refers to r, or its run is between the save of r and the
\* save of the Completed status
OfCompletedTask(r) ==
    LET t == resultRepository[r].taskId IN
    /\ t \in TaskIds
    /\ \/ StatusOf(t) = Completed /\ taskRepository[t].resultId = r
       \/ /\ t \in DOMAIN runs
          /\ runs[t].pc = "saveCompleted"
          /\ runs[t].task.resultId = r
          /\ StatusOf(t) = InProgress

\* no step removes a Result or changes its taskId or its data
ResultsKept ==
    /\ Len(resultRepository') >= Len(resultRepository)
    /\ \A r \in 1..Len(resultRepository) :
          /\ resultRepository'[r].taskId = resultRepository[r].taskId
          /\ resultRepository'[r].data = resultRepository[r].data

C28_SkippedNeverRuns ==
    /\ [](\A t \in TaskIds :
              StatusOf(t) = Skipped =>
                  /\ \E d \in taskRepository[t].dependencies : StatusOf(d) = Failed
                  /\ invoked[t] = 0
                  /\ t \notin DOMAIN runs)
    /\ [][\A t \in TaskIds :
              StatusOf(t) = Skipped =>
                  /\ taskRepository'[t].status = Skipped
                  /\ invoked'[t] = 0]_vars

\* the handler of a dependency has thrown, the dependent task was Skipped by
\* the next prepare phase and the loop has gone through that cycle
C28_Witness ==
    /\ pc = "sleep"
    /\ \E t \in TaskIds :
          /\ StatusOf(t) = Skipped
          /\ invoked[t] = 0
          /\ \E d \in taskRepository[t].dependencies :
                StatusOf(d) = Failed /\ invoked[d] = 1

\* t is a Queued task behind a Skipped task of its workflow
BehindSkipped(t) ==
    /\ StatusOf(t) = Queued
    /\ \E s \in TaskIds :
          /\ taskRepository[s].workflowId = taskRepository[t].workflowId
          /\ taskRepository[s].stepNumber < taskRepository[t].stepNumber
          /\ StatusOf(s) = Skipped

\* C29: a Queued task with a step number larger than that of a Skipped task
\* of its workflow is Queued after every step, the prepare calls of the later
\* cycles included; its handler has not been invoked and no run of it is
\* dispatched.
C29_BlockedBehindSkipped ==
    /\ [][\A t \in TaskIds :
              BehindSkipped(t) =>
                  /\ taskRepository'[t].status = Queued
                  /\ invoked'[t] = 0]_vars
    /\ [](\A t \in TaskIds : BehindSkipped(t) => invoked[t] = 0 /\ t \notin DOMAIN runs)

\* a task is Skipped, the report task behind it was prepared after it and
\* is still Queued, every other task has ended, and the loop sleeps
C29_Witness ==
    /\ pc = "sleep"
    /\ queuedTasks = <<>>
    /\ \E t \in TaskIds :
          /\ BehindSkipped(t)
          /\ taskRepository[t].taskType = "reportGeneration"
          /\ \A u \in TaskIds \ {t} : StatusOf(u) \in {Completed, Failed, Skipped}

\* C30: a workflow with a Skipped task does not have the status Completed.
C30_SkippedNeverCompleted ==
    \A w \in WorkflowIds :
        (\E t \in TasksOf(w) : StatusOf(t) = Skipped) =>
            workflowRepository[w].status # WfCompleted

\* C31: the progress of a Completed task is null, and the progress of a
\* Failed or Skipped task is a string, not null.
C31_ProgressField ==
    \A t \in TaskIds :
        /\ StatusOf(t) = Completed => taskRepository[t].progress = NULL
        /\ StatusOf(t) \in {Failed, Skipped} => taskRepository[t].progress # NULL

\* prepare(t) throws 'Workflow not found' in this step
NotFoundThrows(t) ==
    /\ pc = "prepare"
    /\ queuedTasks # <<>>
    /\ Head(queuedTasks).taskId = t
    /\ <<t, WorkflowNotFound>> \in errors'
    /\ queuedTasks' = Tail(queuedTasks)
    /\ taskRepository'[t].status = Queued

\* C32: a prepare call that finds no workflow is logged with its error by the
\* poller and saves nothing: the task keeps the status Queued it was fetched
\* with, no other row changes and the loop goes on with the next fetched task;
\* every cycle fetches all Queued tasks, so the task is among the tasks of the
\* next cycle.
C32_WorkflowNotFound ==
    /\ [][\A t \in TaskIds :
              (<<t, WorkflowNotFound>> \in errors' /\ <<t, WorkflowNotFound>> \notin errors) =>
                  /\ NotFoundThrows(t)
                  /\ StatusOf(t) = Queued
                  /\ storeVars' = storeVars
                  /\ pc' = "prepare"]_vars
    /\ [][FetchesQueued =>
              \A t \in TaskIds : StatusOf(t) = Queued => t \in IdsOf(queuedTasks')]_vars

\* prepare found no workflow for a task in an earlier cycle, and the task is
\* the next one to be prepared in the current cycle
C32_Witness ==
    /\ pc = "prepare"
    /\ queuedTasks # <<>>
    /\ <<Head(queuedTasks).taskId, WorkflowNotFound>> \in errors
    /\ StatusOf(Head(queuedTasks).taskId) = Queued

\* both pool() calls have been started
BothStarted == pc # "idle" /\ other.pc # "idle"

\* C33: the race belongs to the overlap: a second invocation of a handler, a
\* second Result of a task and a change of a Completed or Failed status happen
\* only when both pool() calls have been started; a Completed or Failed status
\* is then changed only by a save of an entity fetched before it was written:
\* by prepare on an entity fetched as Queued, or by a save of a run of the task.
C33_RaceNeedsOverlap ==
    /\ [](\A t \in TaskIds :
              (invoked[t] >= 2 \/ Cardinality(ResultsOf(t)) >= 2) => BothStarted)
    /\ [][\A t \in TaskIds :
              (StatusOf(t) \in Done /\ taskRepository'[t].status # StatusOf(t)) =>
                  /\ BothStarted
                  /\ \/ /\ pc = "prepare"
                        /\ queuedTasks # <<>>
                        /\ Head(queuedTasks).taskId = t
                        /\ Head(queuedTasks).status = Queued
                     \/ /\ pc = "batch"
                        /\ t \in DOMAIN runs
                        /\ t \in DOMAIN runs'
                        /\ runs'[t].task.status = taskRepository'[t].status]_vars

\* the handler of a task was invoked by both loops and the task has two Results
C33_Witness ==
    \E t \in TaskIds :
        /\ invoked[t] = 2
        /\ Cardinality(ResultsOf(t)) = 2
        /\ StatusOf(t) = Completed

\* the handler of t never returns
Hung(t) == IF t \in DOMAIN runs THEN runs[t].pc = "hung" ELSE FALSE

\* C34: with handlers that may hang, again and again every task that was
\* fetched for dispatch and is not hung has had its run settled, and again and
\* again the loop is outside the dispatch phase (where the next cycle prepares
\* the Queued tasks).
C34_HangIsLocal ==
    /\ []<>(\A t \in TaskIds : Waits(t) => (Settled(t) \/ Hung(t)))
    /\ []<>(pc # "batch")

\* C35: while createWorkflowFromYAML is saving the tasks of a workflow, every
\* task of the workflow is Queued as the factory saved it, none of its tasks
\* is fetched or dispatched by the poller, and the workflow status is not
\* Completed.
C35_CreationIsAtomic ==
    \A w \in WorkflowIds :
        workflowRepository[w].factory = "saving" =>
            /\ workflowRepository[w].status # WfCompleted
            /\ \A t \in TasksOf(w) :
                  /\ StatusOf(t) = Queued
                  /\ t \notin DOMAIN runs
                  /\ t \notin IdsOf(queuedTasks)

\* C36: a workflow whose construction was rejected has no task in the store.
C36_RejectedHasNoTasks ==
    \A w \in WorkflowIds :
        workflowRepository[w].factory = "failed" => TasksOf(w) = {}

\* C37: a workflow that has tasks, all of them Completed, and no run in
\* flight has the status Completed.
C37_CompletedWhenAllCompleted ==
    \A w \in WorkflowIds :
        (/\ TasksOf(w) # {}
         /\ \A t \in TasksOf(w) : StatusOf(t) = Completed
         /\ \A t \in TasksOf(w) \cap DOMAIN runs :
               runs[t].pc \in {"resolved", "rejected"})
        => workflowRepository[w].status = WfCompleted


\* C38: under any interleaving of poll cycles and results requests, a
\* persisted workflow status of Completed or Failed never changes again.
C38_StatusMonotone ==
    [][\A w \in WorkflowIds :
          workflowRepository[w].status \in {WfCompleted, WfFailed} =>
              workflowRepository'[w].status = workflowRepository[w].status]_vars


\* the step of the poll loop that calls prepare on the next fetched task
PrepareStep ==
    /\ pc = "prepare"
    /\ queuedTasks # <<>>
    /\ queuedTasks' = Tail(queuedTasks)

\* C39: prepare(t) of the poll loop changes at most the status of t: every
\* other task row, the progress and resultId of t, the Results and the
\* workflows stay as they are.
C39_PrepareFrame ==
    [][PrepareStep =>
          LET t == Head(queuedTasks).taskId
          IN /\ Len(taskRepository') = Len(taskRepository)
             /\ \A u \in TaskIds \ {t} : taskRepository'[u] = taskRepository[u]
             /\ taskRepository'[t] =
                    [taskRepository[t] EXCEPT !.status = taskRepository'[t].status]
             /\ resultRepository' = resultRepository
             /\ workflowRepository' = workflowRepository]_vars

\* prepare has skipped a task whose dependency failed, next to a task that
\* has a Result
C39_Witness ==
    \E t \in TaskIds :
        /\ StatusOf(t) = Skipped
        /\ \E d \in taskRepository[t].dependencies : StatusOf(d) = Failed
        /\ \E u \in TaskIds \ {t} : taskRepository[u].resultId # 0
        /\ resultRepository # <<>>


\* a step in which a fetch of the poll loop fails: the cycle error is logged,
\* or the loop leaves pool() or the sleep without queuedTasks, or the cycle
\* ends although the store holds Ready tasks
FetchFails ==
    \/ <<0, CycleError>> \in errors' \ errors
    \/ pc = "idle" /\ pc' \notin {"idle", "prepare"}
    \/ /\ pc = "prepare"
       /\ queuedTasks = <<>>
       /\ pc' \notin {"prepare", "batch"}
       /\ getReadyTasksResult # <<>>

\* C40: a getQueuedTasks or getReadyTasks that throws changes no task, Result
\* or workflow and starts no run, the loop goes to its sleep (or ends when
\* stop() was called) and a later cycle starts; the loop ends only with the
\* stop flag set and never by an error.
C40_FetchErrorCaught ==
    /\ [][FetchFails =>
             /\ storeVars' = storeVars
             /\ invoked' = invoked
             /\ pc' = IF stopFlag' THEN "stopped" ELSE "sleep"]_vars
    /\ [][pc' = "stopped" => stopFlag']_vars
    /\ [](pc \in {"idle", "prepare", "batch", "sleep", "stopped"})
    /\ []<>(pc \in {"prepare", "stopped"})

\* getReadyTasks has failed in a cycle whose prepare made a task Ready: the
\* loop sleeps with the error logged, the task still Ready and no run started
C40_Witness ==
    /\ <<0, CycleError>> \in errors
    /\ pc = "sleep"
    /\ runs = NoRuns
    /\ \E t \in TaskIds : StatusOf(t) = Ready /\ invoked[t] = 0

====
